---- MODULE Spec2Model ----
(***************************************************************************)
(* bgpkit/asninfo: the refreshable ASN cache and its HTTP serving code.    *)
(*                                                                         *)
(* The repository holds two implementations of the serve path:             *)
(*   src/src/api.rs   the router with /lookup and /health, validation,     *)
(*                    and an updater that takes both mutexes at once;      *)
(*   src/src/main.rs  serve_cmd with its own updater, get_lookup,          *)
(*                    post_lookup and lookup (enveloped responses).        *)
(* The variable impl says which of the two is running; every action is     *)
(* translated from the code of one of them.                                *)
(*                                                                         *)
(* Conventions: Option<T> is a sequence of length <= 1 (<<>> is None);     *)
(* a String that is parsed is a sequence of one-character strings; a       *)
(* timestamp is the tick of the clock read by Utc::now() at the end of a   *)
(* load (loads are sequential, so ticks identify generations).             *)
(***************************************************************************)
EXTENDS Integers, Sequences, FiniteSets, TLC

\* ---------------------------------------------------------------- bounds
\* Number of concurrent request handlers.
NumReaders == 2
\* Number of loader invocations (initial load included) before the model
\* stops scheduling refreshes.
MaxLoads == 2

Readers == 1..NumReaders
\* Lock owners: 0 is "unlocked", UpdaterId the refresh task, r > 0 a handler.
Free == 0
UpdaterId == -1

\* ------------------------------------------------------- external loader
\* What bgpkit_commons can hand back: asinfo_all() maps and the country table.
Org(id, name) == [org_id |-> id, org_name |-> name]
AsInfo(asn, name, country, as2org) ==
    [asn |-> asn, name |-> name, country |-> country, as2org |-> as2org]

\* The datasets the external source publishes at load number `now`: the AS
\* names carry the edition, so the records of two loads differ.
AsInfoMaps(now) ==
    { (1 :> AsInfo(1, <<"A", now>>, "US", <<Org("X", "Y")>>)
        @@ 2 :> AsInfo(2, <<"B", now>>, "ZZ", <<>>)),
      (1 :> AsInfo(1, <<"A", now>>, "NL", <<>>)
        @@ 11 :> AsInfo(11, <<"C", now>>, "US", <<Org("", "Z")>>)) }

Countries == ("US" :> "United States" @@ "NL" :> "Netherlands")

\* commons.country_by_code(code).ok().flatten().map(|c| c.name)
country_by_code(code) ==
    IF code \in DOMAIN Countries THEN <<Countries[code]>> ELSE <<>>

\* Option::unwrap_or_default for String
unwrap_or_default(opt) == IF opt = <<>> THEN "" ELSE opt[1]

\* The loop of load_asn_map_out that builds the enriched map.
enrich(as_info_map) ==
    [asn \in DOMAIN as_info_map |->
        [inner |-> as_info_map[asn],
         country_name |-> unwrap_or_default(country_by_code(as_info_map[asn].country))]]

\* Outcomes of the three fallible calls of load_asn_map_out: the error codes,
\* and 0 for a load in which every call succeeds.
LoadErrors == {1, 2, 3}
LoadOutcomes == {0} \cup LoadErrors

\* load_asn_map_out of api.rs: Err(1|2|3) or Ok((out, updated_at)).
\* fail = 0 means every step succeeded.
api_load_asn_map_out(fail, as_info_map, now) ==
    IF fail \in LoadErrors
    THEN [kind |-> "err", code |-> fail, map |-> <<>>, ts |-> 0]
    ELSE [kind |-> "ok", code |-> 0, map |-> enrich(as_info_map), ts |-> now]

\* load_asn_map_out of main.rs: asinfo_all().expect(..) panics instead of Err(3).
main_load_asn_map_out(fail, as_info_map, now) ==
    IF fail \in {1, 2}
    THEN [kind |-> "err", code |-> fail, map |-> <<>>, ts |-> 0]
    ELSE IF fail = 3
    THEN [kind |-> "panic", code |-> 0, map |-> <<>>, ts |-> 0]
    ELSE [kind |-> "ok", code |-> 0, map |-> enrich(as_info_map), ts |-> now]

\* ------------------------------------------------------- request parsing
Digits == {"0", "1", "2", "3", "4", "5", "6", "7", "8", "9"}
DigitVal(c) ==
    CASE c = "0" -> 0 [] c = "1" -> 1 [] c = "2" -> 2 [] c = "3" -> 3
      [] c = "4" -> 4 [] c = "5" -> 5 [] c = "6" -> 6 [] c = "7" -> 7
      [] c = "8" -> 8 [] c = "9" -> 9
\* u32::MAX = 4294967295, digit by digit (the number itself is beyond TLC's
\* integers; the requests of the model stay well below it).
U32_MAX_DIGITS == <<4, 2, 9, 4, 9, 6, 7, 2, 9, 5>>

\* str::split(','): the pieces between separators ("" gives one empty piece).
RECURSIVE split(_, _)
split(s, sep) ==
    IF \A i \in 1..Len(s) : s[i] # sep
    THEN <<s>>
    ELSE LET i == CHOOSE k \in 1..Len(s) :
                      s[k] = sep /\ \A j \in 1..(k - 1) : s[j] # sep
         IN  <<SubSeq(s, 1, i - 1)>> \o split(SubSeq(s, i + 1, Len(s)), sep)

\* str::trim(): leading and trailing whitespace removed.
RECURSIVE trim(_)
trim(s) ==
    IF s = <<>> THEN s
    ELSE IF s[1] = " " THEN trim(Tail(s))
    ELSE IF s[Len(s)] = " " THEN trim(SubSeq(s, 1, Len(s) - 1))
    ELSE s

\* Value of a digit string, most significant digit first.
RECURSIVE digits_value(_)
digits_value(s) ==
    IF s = <<>> THEN 0
    ELSE 10 * digits_value(SubSeq(s, 1, Len(s) - 1)) + DigitVal(s[Len(s)])

\* str::parse::<u32>() / u32::from_str: an optional leading '+', then one or
\* more decimal digits, the value within u32; anything else is an error.
\* Leading zeros removed.
RECURSIVE strip_zeros(_)
strip_zeros(d) ==
    IF d # <<>> /\ d[1] = "0" THEN strip_zeros(Tail(d)) ELSE d

\* Whether a digit string denotes a value <= u32::MAX (the overflow check of
\* the parse).
fits_u32(d) ==
    LET z == strip_zeros(d)
        n == Len(U32_MAX_DIGITS)
    IN  \/ Len(z) < n
        \/ /\ Len(z) = n
           /\ \/ \A i \in 1..n : DigitVal(z[i]) = U32_MAX_DIGITS[i]
              \/ \E i \in 1..n :
                    /\ DigitVal(z[i]) < U32_MAX_DIGITS[i]
                    /\ \A j \in 1..(i - 1) : DigitVal(z[j]) = U32_MAX_DIGITS[j]

parse_u32(s) ==
    LET d == IF s # <<>> /\ s[1] = "+" THEN Tail(s) ELSE s
    IN  IF d = <<>> \/ \E i \in 1..Len(d) : d[i] \notin Digits
        THEN <<>>
        ELSE IF ~fits_u32(d) THEN <<>> ELSE <<digits_value(d)>>

\* Mutant of filter_map_parse: the first token that does not parse ends the
\* list.
RECURSIVE filter_map_parse_stop(_)
filter_map_parse_stop(pieces) ==
    IF pieces = <<>> THEN <<>>
    ELSE IF parse_u32(trim(pieces[1])) = <<>> THEN <<>>
    ELSE parse_u32(trim(pieces[1])) \o filter_map_parse_stop(Tail(pieces))

\* .filter_map(|s| s.trim().parse::<u32>().ok()).collect()
RECURSIVE filter_map_parse(_)
filter_map_parse(pieces) ==
    IF pieces = <<>> THEN <<>>
    ELSE parse_u32(trim(pieces[1])) \o filter_map_parse(Tail(pieces))

\* q.asns.clone().unwrap_or_default().split(',').filter_map(..).collect()
parse_asns(q_asns) ==
    filter_map_parse(split(IF q_asns = <<>> THEN <<>> ELSE q_asns[1], ","))

\* q.legacy.unwrap_or(false)
legacy_flag(q_legacy) == IF q_legacy = <<>> THEN FALSE ELSE q_legacy[1]

\* ------------------------------------------------------ lookup, rendering
\* Mutant of push_found: a record already in the result is not pushed again.
push_found_once(found, map_guard, asn) ==
    IF asn \in DOMAIN map_guard
       /\ \A i \in 1..Len(found) : found[i] # map_guard[asn]
    THEN Append(found, map_guard[asn])
    ELSE found

\* One iteration of the loop over the requested ASNs:
\* if let Some(info) = map_guard.get(&asn) { found.push(info.clone()); }
push_found(found, map_guard, asn) ==
    IF asn \in DOMAIN map_guard THEN Append(found, map_guard[asn]) ELSE found

\* Mutant of legacy_entry: org_id is filled from org_name.
legacy_entry_org_swapped(o) ==
    [asn |-> o.inner.asn,
     as_name |-> o.inner.name,
     org_id |-> IF o.inner.as2org = <<>> THEN "" ELSE o.inner.as2org[1].org_name,
     org_name |-> IF o.inner.as2org = <<>> THEN "" ELSE o.inner.as2org[1].org_name,
     country_code |-> o.inner.country,
     country_name |-> o.country_name,
     data_source |-> ""]

\* One element of convert_to_legacy (api.rs) / the legacy closure (main.rs).
legacy_entry(o) ==
    [asn |-> o.inner.asn,
     as_name |-> o.inner.name,
     org_id |-> IF o.inner.as2org = <<>> THEN "" ELSE o.inner.as2org[1].org_id,
     org_name |-> IF o.inner.as2org = <<>> THEN "" ELSE o.inner.as2org[1].org_name,
     country_code |-> o.inner.country,
     country_name |-> o.country_name,
     data_source |-> ""]

convert_to_legacy(list) == [i \in 1..Len(list) |-> legacy_entry(list[i])]

\* json!(o) of an AsInfoOut: inner is #[serde(flatten)]ed beside country_name.
canonical_entry(o) ==
    [asn |-> o.inner.asn, name |-> o.inner.name, country |-> o.inner.country,
     as2org |-> o.inner.as2org, country_name |-> o.country_name]

to_json(list) == [i \in 1..Len(list) |-> canonical_entry(list[i])]

render(found, use_legacy) ==
    IF use_legacy THEN convert_to_legacy(found) ELSE to_json(found)

\* ------------------------------------------------------------ the state
VARIABLES
    impl,          \* "api" (api.rs) or "main" (main.rs): the code that runs
    srv,           \* serve_cmd: start, loaded, spawned, serving, load_failed, bind_failed
    map,           \* AppState.map: the contents of Mutex<HashMap<u32, AsInfoOut>>
    updated_at,    \* AppState.updated_at: the contents of Mutex<String>
    map_lock,      \* owner of the map mutex (Free, UpdaterId or a handler)
    ts_lock,       \* owner of the updated_at mutex
    map_poisoned,  \* poison flag of the map mutex
    ts_poisoned,   \* poison flag of the updated_at mutex
    clock,         \* number of loader invocations so far; Utc::now() reads it
    upc,           \* the refresh task's position
    pending,       \* the refresh task's (new_map, ts) once the loader returned Ok
    h,             \* the request handlers: position, request, locals, response
    map_gen,       \* history: timestamp of the load that produced map
    installed,     \* history: timestamp of the last snapshot fully installed
    refresh_secs,  \* the configured refresh interval (--refresh-secs)
    elapsed        \* history: seconds the refresh task has slept since the
                   \* loader was last invoked

vars == <<impl, srv, map, updated_at, map_lock, ts_lock, map_poisoned,
          ts_poisoned, clock, upc, pending, h, map_gen, installed,
          refresh_secs, elapsed>>

\* The floor of the refresh interval: api.rs names it, main.rs writes .max(60).
MINIMUM_UPDATER_INTERVAL_SECS == 3600
MAIN_MINIMUM_INTERVAL_SECS == 60
\* default_value_t of --refresh-secs
DEFAULT_REFRESH_SECS == 21600

\* u64::max
max(a, b) == IF a >= b THEN a ELSE b

\* let interval = Duration::from_secs(refresh_secs.max(MINIMUM_UPDATER_INTERVAL_SECS));
api_interval(secs) == max(secs, MINIMUM_UPDATER_INTERVAL_SECS)

\* let interval = Duration::from_secs(refresh_secs.max(60));
main_interval(secs) == max(secs, MAIN_MINIMUM_INTERVAL_SECS)

\* The configured intervals of the runs that examine the sleep.
RefreshSecsInputs == {0, 1, 59, 60, 61, 3599, 3600, 3601, 86400}

\* AppState.max_asns (api.rs); the model runs with a small configured maximum.
max_asns == 2

NoPending == [map |-> <<>>, ts |-> 0]

NoResp == [status |-> 0, data |-> <<>>, error |-> "", enveloped |-> FALSE,
           count |-> 0, updatedAt |-> 0, page |-> 0, page_size |-> 0]

Idle == [pc |-> "idle", op |-> "none", q_asns |-> <<>>, q_legacy |-> <<>>,
         body |-> <<>>, asns |-> <<>>, idx |-> 0, found |-> <<>>,
         found_gen |-> 0, resp |-> NoResp]

\* Requests: every query string over Chars up to MaxStrLen characters (or no
\* asns parameter at all) and one with an overflowing token, every body over BodyAsns up to MaxBodyLen entries.
MaxStrLen == 5
MaxBodyLen == 3
Chars == {"1", ",", " ", "x", "+"}
BodyAsns == {1, 2, 11}
SeqsUpTo(S, n) == UNION { [1..k -> S] : k \in 0..n }
\* asns=x,4294967296,1: a token one above u32::MAX between two others.
OverflowQueries ==
    { <<"x", ",", "4", "2", "9", "4", "9", "6", "7", "2", "9", "6", ",", "1">> }
QueryAsnsInputs ==
    {<<>>} \cup { <<str>> : str \in SeqsUpTo(Chars, MaxStrLen) \cup OverflowQueries }
QueryLegacyInputs == { <<>>, <<TRUE>>, <<FALSE>> }
BodyInputs == SeqsUpTo(BodyAsns, MaxBodyLen)

\* The requests of the concurrent runs: asns=1,11 and {"asns": [2, 2]}.
ConcQueryAsnsInputs == { << <<"1", ",", "1", "1">> >> }
ConcQueryLegacyInputs == { <<>> }
ConcBodyInputs == { <<2, 2>> }
\* Bodies that api.rs rejects: {"asns": []} and one with max_asns + 1 entries.
RejectedBodyInputs == { <<>>, [i \in 1..(max_asns + 1) |-> 1] }

\* A JSON error response with a status code.
error_response(status, msg) ==
    [NoResp EXCEPT !.status = status, !.error = msg]

\* Mutant of bare_response: an empty result is answered 404.
bare_response_not_found(results) ==
    IF results = <<>>
    THEN [NoResp EXCEPT !.status = 404, !.error = "not found"]
    ELSE [NoResp EXCEPT !.status = 200, !.data = results]

\* Ok(Json(results)) of api.rs: the bare list.
bare_response(results) ==
    [NoResp EXCEPT !.status = 200, !.data = results]

\* Mutant of envelope_response: page_size is the number of entries returned.
envelope_response_page_size_found(data_values, ts, asns) ==
    [NoResp EXCEPT !.status = 200, !.enveloped = TRUE, !.data = data_values,
                   !.count = Len(data_values), !.updatedAt = ts,
                   !.page = 0, !.page_size = Len(data_values)]

\* The json!({"data", "count", "updatedAt", "page", "page_size"}) of main.rs.
envelope_response(data_values, ts, asns) ==
    [NoResp EXCEPT !.status = 200, !.enveloped = TRUE, !.data = data_values,
                   !.count = Len(data_values), !.updatedAt = ts,
                   !.page = 0, !.page_size = Len(asns)]

\* ------------------------------------------------------------------ Init
\* api.rs is handed an AppState that already holds a snapshot, and its updater
\* is spawned by that caller; main.rs starts at serve_cmd.
InitWith(RS) ==
    /\ impl \in {"api", "main"}
    /\ refresh_secs \in RS
    /\ elapsed = 0
    /\ map_lock = Free /\ ts_lock = Free
    /\ map_poisoned = FALSE /\ ts_poisoned = FALSE
    /\ pending = NoPending
    /\ h = [r \in Readers |-> Idle]
    /\ IF impl = "api"
       THEN /\ srv = "serving"
            /\ \E m \in AsInfoMaps(1) : map = enrich(m)
            /\ updated_at = 1 /\ map_gen = 1 /\ installed = 1 /\ clock = 1
            /\ upc = "sleeping"
       ELSE /\ srv = "start"
            /\ map = <<>>
            /\ updated_at = 0 /\ map_gen = 0 /\ installed = 0 /\ clock = 0
            /\ upc = "not_started"

\* The service run with the default refresh interval.
Init == InitWith({DEFAULT_REFRESH_SECS})

\* ------------------------------------------------------ serve_cmd (main.rs)
\* The positions of serve_cmd at which the process has ended.
Exited == {"load_failed", "bind_failed"}


\* Mutant of serve_cmd_load: a failed initial load is ignored and serve_cmd
\* goes on with an empty store.
serve_cmd_load_unchecked ==
    /\ impl = "main" /\ srv = "start"
    /\ clock' = clock + 1
    /\ elapsed' = 0
    /\ \E fail \in LoadOutcomes, m \in AsInfoMaps(clock + 1) :
       LET out == main_load_asn_map_out(fail, m, clock + 1)
       IN  /\ map' = out.map /\ updated_at' = out.ts
           /\ map_gen' = out.ts /\ installed' = out.ts
           /\ srv' = "loaded"
    /\ UNCHANGED <<impl, refresh_secs, map_lock, ts_lock, map_poisoned, ts_poisoned, upc,
                   pending, h>>

\* let (initial_map, updated_at_str) = load_asn_map_out(simplified)?; then the
\* two Arc<Mutex<..>> are created.  Err(code) leaves through exit(code); the
\* expect() inside the loader panics the main task.
serve_cmd_load ==
    /\ impl = "main" /\ srv = "start"
    /\ clock' = clock + 1
    /\ elapsed' = 0
    /\ \E fail \in LoadOutcomes, m \in AsInfoMaps(clock + 1) :
       LET out == main_load_asn_map_out(fail, m, clock + 1)
       IN  IF out.kind = "ok"
           THEN /\ map' = out.map /\ updated_at' = out.ts
                /\ map_gen' = out.ts /\ installed' = out.ts
                /\ srv' = "loaded"
           ELSE /\ srv' = "load_failed"
                /\ UNCHANGED <<map, updated_at, map_gen, installed>>
    /\ UNCHANGED <<impl, refresh_secs, map_lock, ts_lock, map_poisoned, ts_poisoned, upc,
                   pending, h>>

\* let _handle = start_updater(map.clone(), updated_at.clone(), ..);
serve_cmd_start_updater ==
    /\ impl = "main" /\ srv = "loaded"
    /\ upc' = "sleeping"
    /\ srv' = "spawned"
    /\ UNCHANGED <<impl, refresh_secs, elapsed, map, updated_at, map_lock, ts_lock, map_poisoned,
                   ts_poisoned, clock, pending, h, map_gen, installed>>

\* bind.parse() and TcpListener::bind: Err(6) ends the process, Ok goes on
\* to axum::serve.
serve_cmd_bind ==
    /\ impl = "main" /\ srv = "spawned"
    /\ \E ok \in BOOLEAN : srv' = IF ok THEN "serving" ELSE "bind_failed"
    /\ UNCHANGED <<impl, refresh_secs, elapsed, map, updated_at, map_lock, ts_lock, map_poisoned,
                   ts_poisoned, clock, upc, pending, h, map_gen, installed>>

\* -------------------------------------------------- the refresh task
\* sleep(interval).await of either start_updater.  The task runs while the
\* process does.
start_updater_sleep ==
    /\ srv \notin Exited
    /\ upc = "sleeping"
    /\ clock < MaxLoads
    /\ upc' = "loading"
    /\ elapsed' = elapsed + (IF impl = "api" THEN api_interval(refresh_secs)
                                              ELSE main_interval(refresh_secs))
    /\ UNCHANGED <<impl, refresh_secs, srv, map, updated_at, map_lock, ts_lock, map_poisoned,
                   ts_poisoned, clock, pending, h, map_gen, installed>>

\* api.rs: match load_asn_map_out(simplified) { Ok(..) => .., Err(e) => error!(..) }
api_updater_load ==
    /\ impl = "api" /\ srv \notin Exited
    /\ upc = "loading"
    /\ clock' = clock + 1
    /\ elapsed' = 0
    /\ \E fail \in LoadOutcomes, m \in AsInfoMaps(clock + 1) :
       LET out == api_load_asn_map_out(fail, m, clock + 1)
       IN  IF out.kind = "ok"
           THEN /\ pending' = [map |-> out.map, ts |-> out.ts]
                /\ upc' = "lock_map"
           ELSE /\ pending' = NoPending
                /\ upc' = "sleeping"
    /\ UNCHANGED <<impl, refresh_secs, srv, map, updated_at, map_lock, ts_lock, map_poisoned,
                   ts_poisoned, h, map_gen, installed>>

\* Mutant of api_updater_lock_map: the updater goes on without waiting for the
\* map mutex to be free.
api_updater_lock_map_unguarded ==
    /\ impl = "api" /\ srv \notin Exited
    /\ upc = "lock_map"
    /\ upc' = "lock_ts"
    /\ UNCHANGED <<impl, refresh_secs, elapsed, srv, map, updated_at, map_lock, ts_lock, map_poisoned,
                   ts_poisoned, clock, pending, h, map_gen, installed>>

\* let mut map_guard = map.lock().unwrap_or_else(|poisoned| poisoned.into_inner());
api_updater_lock_map ==
    /\ impl = "api" /\ srv \notin Exited
    /\ upc = "lock_map"
    /\ map_lock = Free
    /\ map_lock' = UpdaterId
    /\ upc' = "lock_ts"
    /\ UNCHANGED <<impl, refresh_secs, elapsed, srv, map, updated_at, ts_lock, map_poisoned,
                   ts_poisoned, clock, pending, h, map_gen, installed>>

\* let mut ts_guard = updated_at.lock().unwrap_or_else(..);  (map_guard held)
api_updater_lock_ts ==
    /\ impl = "api" /\ srv \notin Exited
    /\ upc = "lock_ts"
    /\ ts_lock = Free
    /\ ts_lock' = UpdaterId
    /\ upc' = "write_map"
    /\ UNCHANGED <<impl, refresh_secs, elapsed, srv, map, updated_at, map_lock, map_poisoned,
                   ts_poisoned, clock, pending, h, map_gen, installed>>

\* Mutant of api_updater_write_map: the new map is never assigned.
api_updater_write_map_skipped ==
    /\ impl = "api" /\ srv \notin Exited
    /\ upc = "write_map"
    /\ upc' = "write_ts"
    /\ UNCHANGED <<impl, refresh_secs, elapsed, srv, map, map_gen, updated_at, map_lock, ts_lock,
                   map_poisoned, ts_poisoned, clock, pending, h, installed>>

\* Mutant of api_updater_write_map: the new entries are inserted into the
\* stored map, the old keys stay.
api_updater_write_map_merged ==
    /\ impl = "api" /\ srv \notin Exited
    /\ upc = "write_map"
    /\ map' = pending.map @@ map
    /\ map_gen' = pending.ts
    /\ upc' = "write_ts"
    /\ UNCHANGED <<impl, refresh_secs, elapsed, srv, updated_at, map_lock, ts_lock, map_poisoned,
                   ts_poisoned, clock, pending, h, installed>>

\* *map_guard = new_map;
api_updater_write_map ==
    /\ impl = "api" /\ srv \notin Exited
    /\ upc = "write_map"
    /\ map' = pending.map
    /\ map_gen' = pending.ts
    /\ upc' = "write_ts"
    /\ UNCHANGED <<impl, refresh_secs, elapsed, srv, updated_at, map_lock, ts_lock, map_poisoned,
                   ts_poisoned, clock, pending, h, installed>>

\* Mutant of api_updater_write_ts: the installation completes without the
\* timestamp being assigned.
api_updater_write_ts_skipped ==
    /\ impl = "api" /\ srv \notin Exited
    /\ upc = "write_ts"
    /\ installed' = pending.ts
    /\ upc' = "unlock_ts"
    /\ UNCHANGED <<impl, refresh_secs, elapsed, srv, map, updated_at, map_lock, ts_lock, map_poisoned,
                   ts_poisoned, clock, pending, h, map_gen>>

\* *ts_guard = ts;
api_updater_write_ts ==
    /\ impl = "api" /\ srv \notin Exited
    /\ upc = "write_ts"
    /\ updated_at' = pending.ts
    /\ installed' = pending.ts
    /\ upc' = "unlock_ts"
    /\ UNCHANGED <<impl, refresh_secs, elapsed, srv, map, map_lock, ts_lock, map_poisoned,
                   ts_poisoned, clock, pending, h, map_gen>>

\* Mutant of api_updater_unlock_ts: ts_guard is never dropped.
api_updater_unlock_ts_kept ==
    /\ impl = "api" /\ srv \notin Exited
    /\ upc = "unlock_ts"
    /\ upc' = "unlock_map"
    /\ UNCHANGED <<impl, refresh_secs, elapsed, srv, map, updated_at, map_lock,
                   ts_lock, map_poisoned, ts_poisoned, clock, pending, h,
                   map_gen, installed>>

\* End of the Ok arm: ts_guard is dropped first (declared last) ...
api_updater_unlock_ts ==
    /\ impl = "api" /\ srv \notin Exited
    /\ upc = "unlock_ts"
    /\ ts_lock' = Free
    /\ upc' = "unlock_map"
    /\ UNCHANGED <<impl, refresh_secs, elapsed, srv, map, updated_at, map_lock, map_poisoned,
                   ts_poisoned, clock, pending, h, map_gen, installed>>

\* Mutant of api_updater_unlock_map: map_guard outlives the Ok arm and is
\* still held when the loop goes back to sleep.
api_updater_unlock_map_kept ==
    /\ impl = "api" /\ srv \notin Exited
    /\ upc = "unlock_map"
    /\ pending' = NoPending
    /\ upc' = "sleeping"
    /\ UNCHANGED <<impl, refresh_secs, elapsed, srv, map, updated_at, map_lock, ts_lock, map_poisoned,
                   ts_poisoned, clock, h, map_gen, installed>>

\* ... then map_guard, and the loop goes back to sleep.
api_updater_unlock_map ==
    /\ impl = "api" /\ srv \notin Exited
    /\ upc = "unlock_map"
    /\ map_lock' = Free
    /\ pending' = NoPending
    /\ upc' = "sleeping"
    /\ UNCHANGED <<impl, refresh_secs, elapsed, srv, map, updated_at, ts_lock, map_poisoned,
                   ts_poisoned, clock, h, map_gen, installed>>

\* main.rs: the same match, over a loader that can also panic (the task ends).
main_updater_load ==
    /\ impl = "main" /\ srv \notin Exited
    /\ upc = "loading"
    /\ clock' = clock + 1
    /\ elapsed' = 0
    /\ \E fail \in LoadOutcomes, m \in AsInfoMaps(clock + 1) :
       LET out == main_load_asn_map_out(fail, m, clock + 1)
       IN  IF out.kind = "ok"
           THEN /\ pending' = [map |-> out.map, ts |-> out.ts]
                /\ upc' = "lock_map"
           ELSE /\ pending' = NoPending
                /\ upc' = IF out.kind = "panic" THEN "dead" ELSE "sleeping"
    /\ UNCHANGED <<impl, refresh_secs, srv, map, updated_at, map_lock, ts_lock, map_poisoned,
                   ts_poisoned, h, map_gen, installed>>

\* { let mut guard = map.lock().unwrap();   unwrap panics on a poisoned mutex
\* (the guard inside the error is dropped, the task ends).
main_updater_lock_map ==
    /\ impl = "main" /\ srv \notin Exited
    /\ upc = "lock_map"
    /\ map_lock = Free
    /\ IF map_poisoned
       THEN /\ upc' = "poison_panic" /\ pending' = NoPending /\ UNCHANGED map_lock
       ELSE /\ upc' = "write_map" /\ map_lock' = UpdaterId /\ UNCHANGED pending
    /\ UNCHANGED <<impl, refresh_secs, elapsed, srv, map, updated_at, ts_lock, map_poisoned,
                   ts_poisoned, clock, h, map_gen, installed>>

\*   *guard = new_map; }   the block ends and the guard is dropped
main_updater_write_map ==
    /\ impl = "main" /\ srv \notin Exited
    /\ upc = "write_map"
    /\ map' = pending.map
    /\ map_gen' = pending.ts
    /\ map_lock' = Free
    /\ upc' = "lock_ts"
    /\ UNCHANGED <<impl, refresh_secs, elapsed, srv, updated_at, ts_lock, map_poisoned, ts_poisoned,
                   clock, pending, h, installed>>

\* { let mut ts_guard = updated_at.lock().unwrap();
main_updater_lock_ts ==
    /\ impl = "main" /\ srv \notin Exited
    /\ upc = "lock_ts"
    /\ ts_lock = Free
    /\ IF ts_poisoned
       THEN /\ upc' = "poison_panic" /\ pending' = NoPending /\ UNCHANGED ts_lock
       ELSE /\ upc' = "write_ts" /\ ts_lock' = UpdaterId /\ UNCHANGED pending
    /\ UNCHANGED <<impl, refresh_secs, elapsed, srv, map, updated_at, map_lock, map_poisoned,
                   ts_poisoned, clock, h, map_gen, installed>>

\*   *ts_guard = ts; }
main_updater_write_ts ==
    /\ impl = "main" /\ srv \notin Exited
    /\ upc = "write_ts"
    /\ updated_at' = pending.ts
    /\ installed' = pending.ts
    /\ ts_lock' = Free
    /\ pending' = NoPending
    /\ upc' = "sleeping"
    /\ UNCHANGED <<impl, refresh_secs, elapsed, srv, map, map_lock, map_poisoned, ts_poisoned,
                   clock, h, map_gen>>

\* ---------------------------------------------------- handlers of api.rs
\* get_lookup up to the lock: parse the query, reject an empty list (400)
\* and a list longer than max_asns (413).
api_get_lookup(r, Q, L) ==
    /\ impl = "api" /\ srv = "serving"
    /\ h[r].pc = "idle"
    /\ \E q_asns \in Q, q_legacy \in L :
       LET asns == parse_asns(q_asns)
           req  == [Idle EXCEPT !.op = "get", !.q_asns = q_asns,
                                !.q_legacy = q_legacy, !.asns = asns]
       IN  h' = [h EXCEPT ![r] =
                IF asns = <<>>
                THEN [req EXCEPT !.pc = "done",
                        !.resp = error_response(400, "no valid ASNs provided in 'asns' query parameter")]
                ELSE IF Len(asns) > max_asns
                THEN [req EXCEPT !.pc = "done",
                        !.resp = error_response(413, "payload too large")]
                ELSE [req EXCEPT !.pc = "lock_map"]]
    /\ UNCHANGED <<impl, refresh_secs, elapsed, srv, map, updated_at, map_lock, ts_lock, map_poisoned,
                   ts_poisoned, clock, upc, pending, map_gen, installed>>

\* let map_guard = state.map.lock().map_err(|_| (500, ..))?;
\* A poisoned mutex becomes the 500 response (the guard in the error is dropped).
api_get_lookup_lock(r) ==
    /\ impl = "api"
    /\ h[r].pc = "lock_map" /\ h[r].op = "get"
    /\ map_lock = Free
    /\ IF map_poisoned
       THEN /\ h' = [h EXCEPT ![r].pc = "done",
                              ![r].resp = error_response(500, "internal server error")]
            /\ UNCHANGED map_lock
       ELSE /\ h' = [h EXCEPT ![r].pc = "read_map"]
            /\ map_lock' = r
    /\ UNCHANGED <<impl, refresh_secs, elapsed, srv, map, updated_at, ts_lock, map_poisoned,
                   ts_poisoned, clock, upc, pending, map_gen, installed>>

\* for asn in asns { .. }: one iteration, under map_guard.
api_get_lookup_loop(r) ==
    /\ impl = "api"
    /\ h[r].pc = "read_map" /\ h[r].op = "get"
    /\ h[r].idx < Len(h[r].asns)
    /\ h' = [h EXCEPT ![r].idx = @ + 1,
                      ![r].found = push_found(@, map, h[r].asns[h[r].idx + 1])]
    /\ UNCHANGED <<impl, refresh_secs, elapsed, srv, map, updated_at, map_lock, ts_lock, map_poisoned,
                   ts_poisoned, clock, upc, pending, map_gen, installed>>

\* After the loop: the legacy switch, Ok(Json(results)); map_guard lives to
\* the end of the function.
api_get_lookup_finish(r) ==
    /\ impl = "api"
    /\ h[r].pc = "read_map" /\ h[r].op = "get"
    /\ h[r].idx = Len(h[r].asns)
    /\ LET found == h[r].found
           use_legacy == legacy_flag(h[r].q_legacy)
           results == IF use_legacy THEN convert_to_legacy(found) ELSE to_json(found)
       IN  h' = [h EXCEPT ![r].pc = "done", ![r].found_gen = map_gen,
                          ![r].resp = bare_response(results)]
    /\ map_lock' = Free
    /\ UNCHANGED <<impl, refresh_secs, elapsed, srv, map, updated_at, ts_lock, map_poisoned,
                   ts_poisoned, clock, upc, pending, map_gen, installed>>

\* post_lookup up to the lock: the two checks on body.asns.  The handler has
\* no Query extractor: the legacy parameter of the request is not looked at.
api_post_lookup(r, B, L) ==
    /\ impl = "api" /\ srv = "serving"
    /\ h[r].pc = "idle"
    /\ \E body \in B, q_legacy \in L :
       LET req == [Idle EXCEPT !.op = "post", !.body = body, !.asns = body,
                                !.q_legacy = q_legacy]
       IN  h' = [h EXCEPT ![r] =
                IF body = <<>>
                THEN [req EXCEPT !.pc = "done",
                        !.resp = error_response(400, "no ASNs provided in request body")]
                ELSE IF Len(body) > max_asns
                THEN [req EXCEPT !.pc = "done",
                        !.resp = error_response(413, "payload too large")]
                ELSE [req EXCEPT !.pc = "lock_map"]]
    /\ UNCHANGED <<impl, refresh_secs, elapsed, srv, map, updated_at, map_lock, ts_lock, map_poisoned,
                   ts_poisoned, clock, upc, pending, map_gen, installed>>

api_post_lookup_lock(r) ==
    /\ impl = "api"
    /\ h[r].pc = "lock_map" /\ h[r].op = "post"
    /\ map_lock = Free
    /\ IF map_poisoned
       THEN /\ h' = [h EXCEPT ![r].pc = "done",
                              ![r].resp = error_response(500, "internal server error")]
            /\ UNCHANGED map_lock
       ELSE /\ h' = [h EXCEPT ![r].pc = "read_map"]
            /\ map_lock' = r
    /\ UNCHANGED <<impl, refresh_secs, elapsed, srv, map, updated_at, ts_lock, map_poisoned,
                   ts_poisoned, clock, upc, pending, map_gen, installed>>

\* for asn in body.asns { .. }: one iteration, under map_guard.
api_post_lookup_loop(r) ==
    /\ impl = "api"
    /\ h[r].pc = "read_map" /\ h[r].op = "post"
    /\ h[r].idx < Len(h[r].asns)
    /\ h' = [h EXCEPT ![r].idx = @ + 1,
                      ![r].found = push_found(@, map, h[r].asns[h[r].idx + 1])]
    /\ UNCHANGED <<impl, refresh_secs, elapsed, srv, map, updated_at, map_lock, ts_lock, map_poisoned,
                   ts_poisoned, clock, upc, pending, map_gen, installed>>

\* After the loop: Ok(Json(json!(found))); map_guard is dropped.
api_post_lookup_finish(r) ==
    /\ impl = "api"
    /\ h[r].pc = "read_map" /\ h[r].op = "post"
    /\ h[r].idx = Len(h[r].asns)
    /\ h' = [h EXCEPT ![r].pc = "done", ![r].found_gen = map_gen,
                      ![r].resp = bare_response(to_json(h[r].found))]
    /\ map_lock' = Free
    /\ UNCHANGED <<impl, refresh_secs, elapsed, srv, map, updated_at, ts_lock, map_poisoned,
                   ts_poisoned, clock, upc, pending, map_gen, installed>>

\* GET /health arrives.
api_health(r) ==
    /\ impl = "api" /\ srv = "serving"
    /\ h[r].pc = "idle"
    /\ h' = [h EXCEPT ![r] = [Idle EXCEPT !.op = "health", !.pc = "lock_ts"]]
    /\ UNCHANGED <<impl, refresh_secs, elapsed, srv, map, updated_at, map_lock, ts_lock, map_poisoned,
                   ts_poisoned, clock, upc, pending, map_gen, installed>>

\* state.updated_at.lock().unwrap_or_else(|e| e.into_inner())
api_health_lock(r) ==
    /\ impl = "api"
    /\ h[r].pc = "lock_ts" /\ h[r].op = "health"
    /\ ts_lock = Free
    /\ ts_lock' = r
    /\ h' = [h EXCEPT ![r].pc = "read_ts"]
    /\ UNCHANGED <<impl, refresh_secs, elapsed, srv, map, updated_at, map_lock, map_poisoned,
                   ts_poisoned, clock, upc, pending, map_gen, installed>>

\* .clone(); the temporary guard is dropped; {"status": "ok", "updatedAt": ..}
api_health_finish(r) ==
    /\ impl = "api"
    /\ h[r].pc = "read_ts" /\ h[r].op = "health"
    /\ ts_lock' = Free
    /\ h' = [h EXCEPT ![r].pc = "done",
                      ![r].resp = [NoResp EXCEPT !.status = 200,
                                                 !.updatedAt = updated_at]]
    /\ UNCHANGED <<impl, refresh_secs, elapsed, srv, map, updated_at, map_lock, map_poisoned,
                   ts_poisoned, clock, upc, pending, map_gen, installed>>

\* --------------------------------------------------- handlers of main.rs
\* get_lookup up to the call of lookup(): the query is parsed, nothing is
\* rejected.
main_get_lookup(r, Q, L) ==
    /\ impl = "main" /\ srv = "serving"
    /\ h[r].pc = "idle"
    /\ \E q_asns \in Q, q_legacy \in L :
       h' = [h EXCEPT ![r] = [Idle EXCEPT !.op = "get", !.pc = "lock_map",
                                 !.q_asns = q_asns, !.q_legacy = q_legacy,
                                 !.asns = parse_asns(q_asns)]]
    /\ UNCHANGED <<impl, refresh_secs, elapsed, srv, map, updated_at, map_lock, ts_lock, map_poisoned,
                   ts_poisoned, clock, upc, pending, map_gen, installed>>

\* post_lookup up to the call of lookup(): asns = body.asns.
main_post_lookup(r, B, L) ==
    /\ impl = "main" /\ srv = "serving"
    /\ h[r].pc = "idle"
    /\ \E body \in B, q_legacy \in L :
       h' = [h EXCEPT ![r] = [Idle EXCEPT !.op = "post", !.pc = "lock_map",
                                 !.body = body, !.q_legacy = q_legacy,
                                 !.asns = body]]
    /\ UNCHANGED <<impl, refresh_secs, elapsed, srv, map, updated_at, map_lock, ts_lock, map_poisoned,
                   ts_poisoned, clock, upc, pending, map_gen, installed>>

\* lookup(): let map = state.map.lock().unwrap();  (a poisoned mutex panics
\* the handler: no response is written)
main_lookup_lock(r) ==
    /\ impl = "main"
    /\ h[r].pc = "lock_map"
    /\ map_lock = Free
    /\ IF map_poisoned
       THEN /\ h' = [h EXCEPT ![r].pc = "panicked"]
            /\ UNCHANGED map_lock
       ELSE /\ h' = [h EXCEPT ![r].pc = "read_map"]
            /\ map_lock' = r
    /\ UNCHANGED <<impl, refresh_secs, elapsed, srv, map, updated_at, ts_lock, map_poisoned,
                   ts_poisoned, clock, upc, pending, map_gen, installed>>

\* lookup(): for asn in asns { .. }: one iteration, under the guard.
main_lookup_loop(r) ==
    /\ impl = "main"
    /\ h[r].pc = "read_map"
    /\ h[r].idx < Len(h[r].asns)
    /\ h' = [h EXCEPT ![r].idx = @ + 1,
                      ![r].found = push_found(@, map, h[r].asns[h[r].idx + 1])]
    /\ UNCHANGED <<impl, refresh_secs, elapsed, srv, map, updated_at, map_lock, ts_lock, map_poisoned,
                   ts_poisoned, clock, upc, pending, map_gen, installed>>

\* Mutant of main_lookup_return: the map guard is returned with res and lives
\* on in the caller.
main_lookup_return_keeping_guard(r) ==
    /\ impl = "main"
    /\ h[r].pc = "read_map"
    /\ h[r].idx = Len(h[r].asns)
    /\ h' = [h EXCEPT ![r].pc = "lock_ts", ![r].found_gen = map_gen]
    /\ UNCHANGED <<impl, refresh_secs, elapsed, srv, map, updated_at, map_lock,
                   ts_lock, map_poisoned, ts_poisoned, clock, upc, pending,
                   map_gen, installed>>

\* lookup(): res is returned; the guard is dropped on return.
main_lookup_return(r) ==
    /\ impl = "main"
    /\ h[r].pc = "read_map"
    /\ h[r].idx = Len(h[r].asns)
    /\ h' = [h EXCEPT ![r].pc = "lock_ts", ![r].found_gen = map_gen]
    /\ map_lock' = Free
    /\ UNCHANGED <<impl, refresh_secs, elapsed, srv, map, updated_at, ts_lock, map_poisoned,
                   ts_poisoned, clock, upc, pending, map_gen, installed>>

\* let updated_at = state.updated_at.lock().unwrap() ...
main_lock_ts(r) ==
    /\ impl = "main"
    /\ h[r].pc = "lock_ts"
    /\ ts_lock = Free
    /\ IF ts_poisoned
       THEN /\ h' = [h EXCEPT ![r].pc = "panicked"]
            /\ UNCHANGED ts_lock
       ELSE /\ h' = [h EXCEPT ![r].pc = "read_ts"]
            /\ ts_lock' = r
    /\ UNCHANGED <<impl, refresh_secs, elapsed, srv, map, updated_at, map_lock, map_poisoned,
                   ts_poisoned, clock, upc, pending, map_gen, installed>>

\* ... .clone(); then data_values (legacy or canonical) and the envelope.
main_respond(r) ==
    /\ impl = "main"
    /\ h[r].pc = "read_ts"
    /\ ts_lock' = Free
    /\ LET legacy == legacy_flag(h[r].q_legacy)
           data_values == IF legacy THEN convert_to_legacy(h[r].found)
                          ELSE to_json(h[r].found)
       IN  h' = [h EXCEPT ![r].pc = "done",
                    ![r].resp = envelope_response(data_values, updated_at, h[r].asns)]
    /\ UNCHANGED <<impl, refresh_secs, elapsed, srv, map, updated_at, map_lock, map_poisoned,
                   ts_poisoned, clock, upc, pending, map_gen, installed>>

\* Mutant of handler_return: the handler stamps the store when it leaves.
handler_return_stamping(r) ==
    /\ h[r].pc \in {"done", "panicked", "crashed"}
    /\ h' = [h EXCEPT ![r] = Idle]
    /\ updated_at' = clock + 1
    /\ UNCHANGED <<impl, refresh_secs, elapsed, srv, map, map_lock, ts_lock,
                   map_poisoned, ts_poisoned, clock, upc, pending, map_gen,
                   installed>>

\* The response (or the broken connection of a panicked handler) has left;
\* the slot takes the next request.
handler_return(r) ==
    /\ h[r].pc \in {"done", "panicked", "crashed"}
    /\ h' = [h EXCEPT ![r] = Idle]
    /\ UNCHANGED <<impl, refresh_secs, elapsed, srv, map, updated_at, map_lock, ts_lock, map_poisoned,
                   ts_poisoned, clock, upc, pending, map_gen, installed>>

\* A handler panics while it holds a guard (fault injection, used only by
\* SpecPoison): dropping the guard during unwinding sets the poison flag.
panic_holding_guard(r) ==
    /\ h[r].pc \in {"read_map", "read_ts"}
    /\ IF h[r].pc = "read_map"
       THEN /\ map_lock' = Free /\ map_poisoned' = TRUE
            /\ UNCHANGED <<ts_lock, ts_poisoned>>
       ELSE /\ ts_lock' = Free /\ ts_poisoned' = TRUE
            /\ UNCHANGED <<map_lock, map_poisoned>>
    /\ h' = [h EXCEPT ![r].pc = "crashed"]
    /\ UNCHANGED <<impl, refresh_secs, elapsed, srv, map, updated_at, clock, upc, pending, map_gen,
                   installed>>

\* ------------------------------------------------------- specifications
\* serve_cmd, from the initial load to axum::serve.
Serve ==
    \/ serve_cmd_load
    \/ serve_cmd_start_updater
    \/ serve_cmd_bind

\* The refresh task of either implementation.
Updater ==
    \/ start_updater_sleep
    \/ api_updater_load
    \/ api_updater_lock_map
    \/ api_updater_lock_ts
    \/ api_updater_write_map
    \/ api_updater_write_ts
    \/ api_updater_unlock_ts
    \/ api_updater_unlock_map
    \/ main_updater_load
    \/ main_updater_lock_map
    \/ main_updater_write_map
    \/ main_updater_lock_ts
    \/ main_updater_write_ts

\* The handlers r of RS taking requests: the queries Q x L, the bodies B.
Requests(RS, Q, L, B) ==
    \E r \in RS :
        \/ api_get_lookup(r, Q, L)
        \/ api_post_lookup(r, B, L)
        \/ api_health(r)
        \/ main_get_lookup(r, Q, L)
        \/ main_post_lookup(r, B, L)

\* The steps of the handlers after the request was taken.
Handlers ==
    \E r \in Readers :
        \/ api_get_lookup_lock(r)
        \/ api_get_lookup_loop(r)
        \/ api_get_lookup_finish(r)
        \/ api_post_lookup_lock(r)
        \/ api_post_lookup_loop(r)
        \/ api_post_lookup_finish(r)
        \/ api_health_lock(r)
        \/ api_health_finish(r)
        \/ main_lookup_lock(r)
        \/ main_lookup_loop(r)
        \/ main_lookup_return(r)
        \/ main_lock_ts(r)
        \/ main_respond(r)
        \/ handler_return(r)

\* The service with its refresh task and NumReaders concurrent handlers.
Next ==
    \/ Serve
    \/ Updater
    \/ Requests(Readers, ConcQueryAsnsInputs, ConcQueryLegacyInputs, ConcBodyInputs)
    \/ Handlers

Spec == Init /\ [][Next]_vars

\* One handler taking every request of the input sets, against the snapshot
\* of the initial load (no refresh is scheduled).
NextReq ==
    \/ Serve
    \/ Requests({1}, QueryAsnsInputs, QueryLegacyInputs, BodyInputs)
    \/ Handlers

SpecReq == Init /\ [][NextReq]_vars

\* Scheduling.  A task that can run is run: a step that stays possible until
\* it is taken is eventually taken (weak fairness).  A mutex that is free
\* again and again is eventually given to each task waiting for it (strong
\* fairness of the lock() steps).  Nothing is assumed of the arrival of
\* requests, of the timer or of the external loader.
HandlerLocks(r) ==
    \/ api_get_lookup_lock(r)
    \/ api_post_lookup_lock(r)
    \/ api_health_lock(r)
    \/ main_lookup_lock(r)
    \/ main_lock_ts(r)

HandlerRuns(r) ==
    \/ api_get_lookup_loop(r)
    \/ api_get_lookup_finish(r)
    \/ api_post_lookup_loop(r)
    \/ api_post_lookup_finish(r)
    \/ api_health_finish(r)
    \/ main_lookup_loop(r)
    \/ main_lookup_return(r)
    \/ main_respond(r)

UpdaterLocks ==
    \/ api_updater_lock_map
    \/ api_updater_lock_ts
    \/ main_updater_lock_map
    \/ main_updater_lock_ts

UpdaterRuns ==
    \/ api_updater_write_map
    \/ api_updater_write_ts
    \/ api_updater_unlock_ts
    \/ api_updater_unlock_map
    \/ main_updater_write_map
    \/ main_updater_write_ts

Fairness ==
    /\ \A r \in Readers : SF_vars(HandlerLocks(r)) /\ WF_vars(HandlerRuns(r))
    /\ SF_vars(UpdaterLocks) /\ WF_vars(UpdaterRuns)

\* The concurrent service under fair scheduling.
SpecFair == Init /\ [][Next]_vars /\ Fairness

\* One handler beside the refresh task, taking the requests of the concurrent
\* runs and the rejected ones: every outcome of a request, with refreshes
\* going on.
NextOutcomes ==
    \/ Serve
    \/ Updater
    \/ Requests({1}, ConcQueryAsnsInputs, ConcQueryLegacyInputs,
                ConcBodyInputs \cup RejectedBodyInputs)
    \/ Handlers

SpecOutcomes == Init /\ [][NextOutcomes]_vars

\* The refresh task alone, from the start of the service, under every
\* configured interval of RefreshSecsInputs.
NextRefresh ==
    \/ Serve
    \/ Updater

SpecRefresh == InitWith(RefreshSecsInputs) /\ [][NextRefresh]_vars

\* The concurrent service with a handler allowed to panic while holding a guard.
NextPoison == Next \/ \E r \in Readers : panic_holding_guard(r)

SpecPoison == Init /\ [][NextPoison]_vars

\* =================================================================== claims
Lookups == {"get", "post"}

\* Handler r has produced its response.
Done(r) == h[r].pc = "done"

\* Handler r takes the step that reads the map under the map guard.
ReadsMap(r) == h[r].pc = "read_map" /\ h'[r].pc \in {"done", "lock_ts"}

\* Handler r takes the step that reads updated_at under its guard.
ReadsTs(r) == h[r].pc = "read_ts" /\ h'[r].pc = "done"

\* C1 (snapshot atomicity): whenever one read operation has observed both the
\* mapping and the timestamp (the records and the updatedAt of one lookup
\* response), the two were installed together: the mapping read is the one of
\* the load whose timestamp is returned.
C1_SnapshotAtomicity ==
    \A r \in Readers :
        (Done(r) /\ h[r].op \in Lookups /\ h[r].resp.status = 200
            /\ h[r].resp.enveloped)
        => h[r].resp.updatedAt = h[r].found_gen

\* C2 (monotonic freshness): a read of the map or of the timestamp returns
\* the value of the last completed installation or a newer one, and the
\* generation held by each field of the store never decreases.
C2_MonotonicFreshness ==
    [][ /\ \A r \in Readers :
            /\ ReadsMap(r) => h'[r].found_gen >= installed
            /\ ReadsTs(r) => h'[r].resp.updatedAt >= installed
        /\ map_gen' >= map_gen
        /\ updated_at' >= updated_at ]_vars

\* C2 witness: a lookup that began before a refresh was installed is answered
\* from the snapshot of that refresh.
C2_Witness ==
    /\ installed = MaxLoads
    /\ \E r \in Readers :
        /\ Done(r) /\ h[r].op = "get" /\ h[r].found # <<>>
        /\ h[r].found_gen = MaxLoads

\* C3 (refresh resilience): a scheduled load that does not deliver a snapshot
\* leaves the mapping and the timestamp as they were and puts the refresh task
\* back to sleep.
C3_RefreshResilience ==
    [][ (upc = "loading" /\ upc' \notin {"loading", "lock_map"})
        => (upc' = "sleeping" /\ map' = map /\ updated_at' = updated_at) ]_vars

\* C4 (empty-request validation): a query or body lookup whose ASN list is
\* empty is answered 400 and carries no result.
C4_EmptyRequestRejected ==
    \A r \in Readers :
        (Done(r) /\ h[r].op \in Lookups /\ h[r].asns = <<>>)
        => (h[r].resp.status = 400 /\ h[r].resp.data = <<>>)

\* C5 (size validation): a query or body lookup with more ASNs than the
\* maximum is answered 413; one with between one and the maximum is accepted.
C5_SizeValidation ==
    \A r \in Readers :
        (Done(r) /\ h[r].op \in Lookups)
        => /\ Len(h[r].asns) > max_asns => h[r].resp.status = 413
           /\ (Len(h[r].asns) >= 1 /\ Len(h[r].asns) <= max_asns)
                => h[r].resp.status = 200

\* The positions of L whose ASN is a key of M, in increasing order.
FoundPositions(M, L) == { i \in 1..Len(L) : L[i] \in DOMAIN M }
NthPosition(S, k) == CHOOSE i \in S : Cardinality({ j \in S : j < i }) = k - 1

\* C6 (lookup correctness): the records a lookup reads are M[a] for each
\* occurrence of a key a of the current mapping M in the request list, in
\* request order, and the response has one entry for each of them.
C6_LookupCorrectness ==
    [][ \A r \in Readers :
          /\ (ReadsMap(r) /\ h[r].op \in Lookups)
             => LET L == h[r].asns
                    P == FoundPositions(map, L)
                    res == h'[r].found
                IN  /\ Len(res) = Cardinality(P)
                    /\ \A k \in 1..Len(res) : res[k] = map[L[NthPosition(P, k)]]
          /\ (h[r].pc # "done" /\ h'[r].pc = "done" /\ h'[r].op \in Lookups
                /\ h'[r].resp.status = 200)
             => /\ Len(h'[r].resp.data) = Len(h'[r].found)
                /\ \A k \in 1..Len(h'[r].found) :
                      h'[r].resp.data[k].asn = h'[r].found[k].inner.asn ]_vars

\* C6 witness: a body lookup of [1, 1, 2] against a mapping with key 1 and
\* without key 2 has returned the record of 1 twice.
C6_Witness ==
    \E r \in Readers :
        /\ Done(r) /\ h[r].op = "post" /\ h[r].resp.status = 200
        /\ h[r].asns = <<1, 1, 2>> /\ 2 \notin DOMAIN map
        /\ Len(h[r].found) = 2 /\ h[r].found[1] = h[r].found[2]

\* C7 (health reflects store): the updatedAt of a health response is the
\* timestamp of the snapshot most recently installed when health reads it,
\* which is also the timestamp of the mapping the store holds at that moment.
C7_HealthReflectsStore ==
    [][ \A r \in Readers :
          (h[r].op = "health" /\ ReadsTs(r))
          => /\ h'[r].resp.status = 200
             /\ h'[r].resp.updatedAt = installed
             /\ h'[r].resp.updatedAt = map_gen ]_vars

\* C7 witness: a health response given after a refresh was installed.
C7_Witness ==
    \E r \in Readers :
        Done(r) /\ h[r].op = "health" /\ h[r].resp.updatedAt = 2 /\ installed = 2

\* C8 (poison recovery): no operation answers with an error or dies because a
\* store mutex is poisoned.
C8_PoisonRecovery ==
    /\ \A r \in Readers : h[r].resp.status # 500 /\ h[r].pc # "panicked"
    /\ upc # "poison_panic"

\* C9 (initial-load gating): a handler runs only while the service is
\* serving, the service serves only with the snapshot of a successful load
\* installed, and after a failed initial load nothing runs any more: the
\* refresh task was not started and no step is possible.
C9_InitialLoadGating ==
    /\ (\E r \in Readers : h[r].pc # "idle") => srv = "serving"
    /\ srv = "serving"
        => (installed >= 1 /\ map_gen >= 1 /\ updated_at >= 1
            /\ map \in { enrich(m) : m \in AsInfoMaps(map_gen) })
    /\ srv = "load_failed"
        => (upc = "not_started" /\ map = <<>> /\ updated_at = 0
            /\ ~ENABLED Next)

\* C9 witness: serve_cmd is serving and has answered a lookup with a record.
C9_Witness ==
    /\ impl = "main" /\ srv = "serving"
    /\ \E r \in Readers : Done(r) /\ h[r].found # <<>>

LegacyFields ==
    {"asn", "as_name", "org_id", "org_name", "country_code", "country_name",
     "data_source"}

\* The response of handler r is rendered in the legacy shape.
RendersLegacy(r) ==
    /\ Done(r) /\ h[r].resp.status = 200 /\ h[r].q_legacy = <<TRUE>>
    /\ (h[r].op = "get" \/ (h[r].op = "post" /\ impl = "main"))

\* C10 (legacy conversion): a legacy response has one entry per record found,
\* in order; each entry copies asn, as_name, country_code and country_name,
\* has org_id and org_name of as2org (both "" when as2org is null) and an
\* empty data_source.
C10_LegacyConversion ==
    \A r \in Readers :
        RendersLegacy(r)
        => /\ Len(h[r].resp.data) = Len(h[r].found)
           /\ \A i \in 1..Len(h[r].found) :
                LET o == h[r].found[i]
                    e == h[r].resp.data[i]
                IN  /\ DOMAIN e = LegacyFields
                    /\ e.asn = o.inner.asn
                    /\ e.as_name = o.inner.name
                    /\ e.country_code = o.inner.country
                    /\ e.country_name = o.country_name
                    /\ e.data_source = ""
                    /\ o.inner.as2org = <<>> => (e.org_id = "" /\ e.org_name = "")
                    /\ o.inner.as2org # <<>>
                        => /\ e.org_id = o.inner.as2org[1].org_id
                           /\ e.org_name = o.inner.as2org[1].org_name

\* C10 witness: a legacy response with one record that has an organisation
\* and one that has none.
C10_Witness ==
    \E r \in Readers :
        /\ RendersLegacy(r) /\ Len(h[r].found) = 2
        /\ h[r].found[1].inner.as2org = <<>>
        /\ h[r].found[2].inner.as2org # <<>>

\* The records of mapping M for the ASNs of list L: one per occurrence of a
\* key of M, in the order of L.
Records(M, L) ==
    LET P == FoundPositions(M, L)
    IN  [k \in 1..Cardinality(P) |-> M[L[NthPosition(P, k)]]]

\* Handler r has answered a valid (non-empty, within the maximum) body lookup.
ValidBodyLookup(r) ==
    /\ Done(r) /\ h[r].op = "post"
    /\ Len(h[r].asns) \in 1..max_asns

\* C11 (body lookup honours legacy): a valid body lookup is answered 200 with
\* the records found rendered in the legacy shape when the request says
\* legacy=true and in the canonical shape otherwise, which is what the query
\* lookup answers for the same list and snapshot.
C11_BodyLookupHonoursLegacy ==
    \A r \in Readers :
        ValidBodyLookup(r)
        => /\ h[r].resp.status = 200
           /\ h[r].resp.data =
                IF h[r].q_legacy = <<TRUE>>
                THEN convert_to_legacy(Records(map, h[r].asns))
                ELSE to_json(Records(map, h[r].asns))

\* Handler r has answered a valid lookup none of whose ASNs is a key of the
\* mapping.
AllAbsentLookup(r) ==
    /\ Done(r) /\ h[r].op \in Lookups
    /\ Len(h[r].asns) \in 1..max_asns
    /\ \A i \in 1..Len(h[r].asns) : h[r].asns[i] \notin DOMAIN map

\* C12 (absent ASNs are not an error): a valid lookup whose ASNs are all
\* absent from the snapshot is answered 200 with an empty result list and no
\* error (count 0 where the response carries a count).
C12_AbsentAsnsNotAnError ==
    \A r \in Readers :
        AllAbsentLookup(r)
        => /\ h[r].resp.status = 200
           /\ h[r].resp.error = ""
           /\ h[r].resp.data = <<>>
           /\ h[r].resp.count = 0

\* C12 witness: a query lookup of two ASNs, both absent, has been answered 200.
C12_Witness ==
    \E r \in Readers :
        /\ AllAbsentLookup(r) /\ h[r].op = "get" /\ Len(h[r].asns) = 2
        /\ h[r].resp.status = 200

\* A token is numeric when, trimmed, it is a decimal numeral: one or more
\* digits, with or without a leading plus sign.
IsNumericToken(t) ==
    LET s == trim(t)
        d == IF s # <<>> /\ s[1] = "+" THEN Tail(s) ELSE s
    IN  d # <<>> /\ \A i \in 1..Len(d) : d[i] \in Digits

NumericTokens(str) == SelectSeq(split(str, ","), IsNumericToken)

\* The numerals that denote a u32, and the number a numeral denotes.
IsU32Token(t) ==
    LET s == trim(t) IN fits_u32(IF s[1] = "+" THEN Tail(s) ELSE s)
TokenValue(t) ==
    LET s == trim(t) IN digits_value(IF s[1] = "+" THEN Tail(s) ELSE s)

\* The tokens joined by commas again.
RECURSIVE JoinTokens(_)
JoinTokens(tokens) ==
    IF tokens = <<>> THEN <<>>
    ELSE IF Len(tokens) = 1 THEN tokens[1]
    ELSE tokens[1] \o <<",">> \o JoinTokens(Tail(tokens))

\* C13 (parsing tolerance): the ASN list a query lookup works on is the list
\* of the numbers of the numeric tokens of the asns parameter, in their
\* order; it is the list the handler works on when given the numeric tokens
\* alone, and an accepted request is answered with the records of that list.
C13_ParsingTolerance ==
    \A r \in Readers :
        (Done(r) /\ h[r].op = "get" /\ h[r].q_asns # <<>>)
        => LET toks  == NumericTokens(h[r].q_asns[1])
               u32s  == SelectSeq(toks, IsU32Token)
               clean == parse_asns(<<JoinTokens(toks)>>)
           IN  /\ h[r].asns = [k \in 1..Len(u32s) |-> TokenValue(u32s[k])]
               /\ h[r].asns = clean
               /\ h[r].resp.status = 200
                    => h[r].resp.data =
                         render(Records(map, clean), legacy_flag(h[r].q_legacy))

\* C13 witness: an accepted query of three tokens, one of them not numeric,
\* answered with the two records of the numeric ones.
C13_Witness ==
    \E r \in Readers :
        /\ Done(r) /\ h[r].op = "get" /\ h[r].resp.status = 200
        /\ h[r].q_asns # <<>>
        /\ Len(split(h[r].q_asns[1], ",")) = 3
        /\ Len(NumericTokens(h[r].q_asns[1])) = 2
        /\ Len(h[r].resp.data) = 2

\* The records of list found all belong to the snapshot of load gen.
AllOfGeneration(found, gen) ==
    \A i \in 1..Len(found) :
        \E m \in AsInfoMaps(gen) :
            /\ found[i].inner.asn \in DOMAIN m
            /\ found[i] = enrich(m)[found[i].inner.asn]

\* C14 (single-generation lookup result): while a lookup reads, what it has
\* collected so far are the records of the current mapping for the ASNs it
\* has examined; the records it returns all belong to one snapshot, the one
\* that was current when it read.
C14_SingleGenerationResult ==
    \A r \in Readers :
        h[r].op \in Lookups
        => /\ h[r].pc = "read_map"
                => /\ h[r].found = Records(map, SubSeq(h[r].asns, 1, h[r].idx))
                   /\ AllOfGeneration(h[r].found, map_gen)
           /\ h[r].pc \in {"lock_ts", "read_ts", "done"}
                => AllOfGeneration(h[r].found, h[r].found_gen)

\* C14 witness: a lookup has read one record and is still in its loop while
\* the refresh task, with a new mapping loaded, waits for the map mutex.
C14_Witness ==
    \E r \in Readers :
        /\ h[r].op \in Lookups /\ h[r].pc = "read_map"
        /\ h[r].idx = 1 /\ Len(h[r].found) = 1 /\ Len(h[r].asns) = 2
        /\ upc = "lock_map" /\ pending.map # map

\* The refresh task has assigned the mapping of this cycle's load.
MapAssigned ==
    \/ impl = "api" /\ upc \in {"write_ts", "unlock_ts", "unlock_map"}
    \/ impl = "main" /\ upc \in {"lock_ts", "write_ts"}

\* C15 (full replacement): once the refresh task has assigned the mapping of
\* a successful load, the store holds exactly the mapping the loader returned
\* in that cycle; the stored mapping is always exactly one load's mapping,
\* never a merge; and a lookup answered from it finds no key that it lacks.
C15_FullReplacement ==
    /\ MapAssigned => (map = pending.map /\ map_gen = pending.ts)
    /\ map_gen >= 1 => map \in { enrich(m) : m \in AsInfoMaps(map_gen) }
    /\ \A r \in Readers :
          (Done(r) /\ h[r].op \in Lookups /\ h[r].found_gen = map_gen)
          => \A i \in 1..Len(h[r].found) : h[r].found[i].inner.asn \in DOMAIN map

\* C15 witness: AS2 was found in the first snapshot, the second snapshot has
\* no AS2, and a later lookup of AS2 found nothing.
C15_Witness ==
    /\ map_gen = 2 /\ installed = 2 /\ 2 \notin DOMAIN map
    /\ \E r1, r2 \in Readers :
        /\ Done(r1) /\ h[r1].found_gen = 1 /\ h[r1].found # <<>>
        /\ h[r1].found[1].inner.asn = 2
        /\ Done(r2) /\ h[r2].found_gen = 2 /\ h[r2].asns = <<2, 2>>
        /\ h[r2].found = <<>>

\* The refresh task holds a store mutex.
UpdaterHoldsLock == map_lock = UpdaterId \/ ts_lock = UpdaterId

\* C16 (loader outside the critical section): the refresh task holds no store
\* mutex while it sleeps or loads (or before it starts, or after it ended);
\* when it holds one, the loader of this cycle has returned a mapping and the
\* task is at the assignments or at the release of the guards.
C16_LoaderOutsideCriticalSection ==
    /\ upc \in {"not_started", "sleeping", "loading", "dead", "poison_panic"}
        => ~UpdaterHoldsLock
    /\ UpdaterHoldsLock
        => /\ pending # NoPending /\ pending.ts = clock
           /\ pending.map \in { enrich(m) : m \in AsInfoMaps(clock) }
           /\ upc \in {"lock_ts", "write_map", "write_ts", "unlock_ts", "unlock_map"}

\* C16 witness: the refresh task runs the loader while a handler holds the
\* map mutex.
C16_Witness ==
    /\ upc = "loading" /\ ~UpdaterHoldsLock
    /\ \E r \in Readers : map_lock = r /\ h[r].pc = "read_map"

\* C17 (interval floor): whenever the refresh task is about to invoke the
\* loader it has slept max(configured, one hour) since the loader was last
\* invoked, so at least one hour.
C17_IntervalFloor ==
    upc = "loading"
    => /\ elapsed = max(refresh_secs, MINIMUM_UPDATER_INTERVAL_SECS)
       /\ elapsed >= MINIMUM_UPDATER_INTERVAL_SECS

\* C18 (readers are pure): a step of a handler (a request taken, a lock
\* acquired, a record read, a response of any status produced) leaves the
\* mapping and the timestamp as they are; the only steps that change either
\* are the initial load of serve_cmd and the two assignments of the refresh
\* task.
C18_ReadersArePure ==
    [][ /\ h' # h => (map' = map /\ updated_at' = updated_at)
        /\ (map' # map \/ updated_at' # updated_at)
            => \/ srv = "start" /\ srv' = "loaded"
               \/ upc = "write_map" /\ upc' # upc /\ updated_at' = updated_at
               \/ upc = "write_ts" /\ upc' # upc /\ map' = map ]_vars

\* C18 witness: a request was rejected as too large while the refresh task
\* was between its two assignments, the new mapping already stored.
C18_Witness ==
    /\ upc = "write_ts" /\ map_gen = 2 /\ updated_at = 1
    /\ \E r \in Readers : Done(r) /\ h[r].resp.status = 413

\* The phase of the refresh task at position u.
Phase(u) ==
    CASE u = "not_started" -> "NotStarted"
      [] u = "sleeping" -> "Sleeping"
      [] u = "loading" -> "Loading"
      [] u \in {"lock_map", "lock_ts", "write_map", "write_ts", "unlock_ts",
                "unlock_map"} -> "Installing"
      [] OTHER -> "Terminated"

\* The moves of the state machine; a failed load is the move from Loading
\* straight back to Sleeping.
PhaseMoves ==
    { <<"NotStarted", "Sleeping">>, <<"Sleeping", "Loading">>,
      <<"Loading", "Installing">>, <<"Loading", "Sleeping">>,
      <<"Installing", "Sleeping">> }

\* C19 (refresh task state machine): the task changes phase only along
\* Sleeping -> Loading -> (Installing | failed) -> Sleeping; it starts to
\* install only in the step in which the loader returned a mapping, it
\* invokes the loader only after having slept since the last invocation, and
\* it never enters a phase it cannot leave.
C19_RefreshStateMachine ==
    [][ /\ Phase(upc') # Phase(upc) => <<Phase(upc), Phase(upc')>> \in PhaseMoves
        /\ Phase(upc') = "Installing" /\ Phase(upc) # "Installing"
            => (clock' = clock + 1 /\ pending' # NoPending /\ pending'.ts = clock')
        /\ (upc = "loading" /\ clock' # clock) => elapsed > 0
        /\ Phase(upc') # "Terminated" ]_vars

\* Handler r has started a call and has not answered it yet.
Started(r) == h[r].pc \notin {"idle", "done"}

\* C20 (lookup and health termination): under fair scheduling every call a
\* handler has started is eventually answered.
C20_CallsTerminate ==
    \A r \in Readers : Started(r) ~> Done(r)

\* C20 witness: a handler waits for the map mutex while the refresh task
\* holds it for an installation, and another call has been answered.
C20_Witness ==
    /\ map_lock = UpdaterId
    /\ \E r1, r2 \in Readers :
        /\ h[r1].pc = "lock_map" /\ h[r1].op \in Lookups
        /\ Done(r2) /\ h[r2].resp.status = 200

\* Handler r has answered a lookup with the enveloped response.
Enveloped(r) == Done(r) /\ h[r].op \in Lookups /\ h[r].resp.enveloped

\* The ASN list of the request of handler r: the parsed asns parameter of a
\* query lookup, the asns array of a body lookup.
RequestedAsns(r) ==
    IF h[r].op = "get" THEN parse_asns(h[r].q_asns) ELSE h[r].body

\* C21 (response envelope consistency): in an enveloped lookup response count
\* is the number of entries of data, which is the number of requested ASNs
\* that are keys of the mapping (each occurrence counted); page is 0;
\* page_size is the number of ASNs of the request, duplicates and absent ones
\* included; and count <= page_size.
C21_EnvelopeConsistency ==
    \A r \in Readers :
        Enveloped(r)
        => /\ h[r].resp.count = Len(h[r].resp.data)
           /\ h[r].resp.count = Cardinality(FoundPositions(map, RequestedAsns(r)))
           /\ h[r].resp.page = 0
           /\ h[r].resp.page_size = Len(RequestedAsns(r))
           /\ h[r].resp.count <= h[r].resp.page_size

\* C21 witness: an enveloped response to a body of three ASNs, one of them
\* twice and one absent: count 2, page_size 3.
C21_Witness ==
    \E r \in Readers :
        /\ Enveloped(r) /\ h[r].op = "post"
        /\ h[r].body = <<1, 2, 1>> /\ 2 \notin DOMAIN map
        /\ h[r].resp.count = 2 /\ h[r].resp.page_size = 3

\* The processes that use the store mutexes, the mutex a process is waiting
\* for (it is at a lock() call), and the holder of a mutex.
Procs == Readers \cup {UpdaterId}
Waits(p) ==
    LET at == IF p = UpdaterId THEN upc ELSE h[p].pc
    IN  IF at = "lock_map" THEN "map" ELSE IF at = "lock_ts" THEN "ts" ELSE "none"
Holder(mutex) == IF mutex = "map" THEN map_lock ELSE ts_lock
Blocked(p) == Waits(p) # "none" /\ Holder(Waits(p)) # Free

\* Two processes each wait for a mutex the other holds (or one waits for a
\* mutex it holds itself).
WaitCycle ==
    \E p, q \in Procs :
        /\ Blocked(p) /\ Holder(Waits(p)) = q
        /\ Blocked(q) /\ Holder(Waits(q)) = p

\* Process p can take its next step.
CanRun(p) ==
    IF p = UpdaterId
    THEN ENABLED (UpdaterRuns \/ UpdaterLocks)
    ELSE ENABLED (HandlerRuns(p) \/ HandlerLocks(p))

\* C22 (deadlock freedom of the store locks): no handler ever holds both
\* mutexes, and none waits for a mutex while holding one; the refresh task
\* never waits for the map mutex while holding the timestamp mutex (it takes
\* the map mutex first); there is no cycle of processes waiting for each
\* other; and whenever a process is blocked at lock(), the holder of that
\* mutex can take its next step, or is itself blocked by a holder that can.
C22_DeadlockFreedom ==
    /\ \A r \in Readers :
          /\ ~(map_lock = r /\ ts_lock = r)
          /\ (map_lock = r \/ ts_lock = r) => Waits(r) = "none"
    /\ ~(ts_lock = UpdaterId /\ Waits(UpdaterId) = "map")
    /\ (impl = "api" /\ ts_lock = UpdaterId) => map_lock = UpdaterId
    /\ ~WaitCycle
    /\ \A p \in Procs :
          Blocked(p)
          => LET q == Holder(Waits(p))
             IN  \/ CanRun(q)
                 \/ Blocked(q) /\ CanRun(Holder(Waits(q)))

\* C22 witness: a lookup waits for the map mutex, which the refresh task
\* holds while it waits for the timestamp mutex, which a health call holds.
C22_Witness ==
    \E r1, r2 \in Readers :
        /\ Waits(r1) = "map" /\ map_lock = UpdaterId
        /\ Waits(UpdaterId) = "ts" /\ ts_lock = r2
        /\ h[r2].op = "health"

\* The number of ASNs the request of handler r counts for: the numeric tokens
\* of the asns parameter that denote a u32, each occurrence counted, or the
\* entries of the body.
CountedAsns(r) ==
    IF h[r].op = "get"
    THEN IF h[r].q_asns = <<>> THEN 0
         ELSE Len(SelectSeq(NumericTokens(h[r].q_asns[1]), IsU32Token))
    ELSE Len(h[r].body)

\* Handler r has not touched the store: it holds no mutex, is not at a
\* lock() call and has read nothing.
StoreUntouched(r) ==
    /\ map_lock # r /\ ts_lock # r
    /\ Waits(r) = "none"
    /\ h[r].idx = 0 /\ h[r].found = <<>> /\ h[r].found_gen = 0

\* C23 (validation precedes the store read and counts occurrences): a lookup
\* whose counted ASN list is empty is answered 400 and one whose list is
\* longer than the maximum is answered 413, in the very step that takes the
\* request: such a request is never at a lock() call, never holds a mutex and
\* reads nothing; only a list of 1..max_asns entries goes on to the store.
C23_ValidationPrecedesStoreRead ==
    \A r \in Readers :
        (h[r].op \in Lookups /\ h[r].pc # "idle")
        => /\ CountedAsns(r) = 0
                => (Done(r) /\ h[r].resp.status = 400 /\ StoreUntouched(r))
           /\ CountedAsns(r) > max_asns
                => (Done(r) /\ h[r].resp.status = 413 /\ StoreUntouched(r))
           /\ ~StoreUntouched(r) => CountedAsns(r) \in 1..max_asns

====
